---- MODULE Spec2Model ----
(***************************************************************************)
(* GeoContext: retrieve_context (geocontext/models/utilities.py),          *)
(* ContextServiceRegistry.retrieve_context_value                           *)
(* (geocontext/models/context_service_registry.py) and                     *)
(* ContextGroupValue.populate_service_registry_values                      *)
(* (geocontext/serializers/context_group.py), run by concurrent request    *)
(* workers over one ContextCache table.                                    *)
(***************************************************************************)
EXTENDS Integers, Sequences, FiniteSets, TLC

\* ---------------------------------------------------------------- bounds
MaxTime == 1
MaxRequests == 3

Workers == {"w1", "w2"}

\* Query points (x, y converted to SRID 4326) and the upstream service's
\* coverage regions, which partition the points.
Points == {1, 2, 3}
RegionPoints == [r1 |-> {1, 2}, r2 |-> {3}]
Regions == DOMAIN RegionPoints
CoverageOf(point) == CHOOSE r \in Regions : point \in RegionPoints[r]

\* Values an upstream response can carry under result_regex; "None" is what
\* parse_request_value returns when the tag is absent.
ResponseValues == {"a", "None"}

\* ------------------------------------------------------- service registry
\* The ContextServiceRegistry rows: key -> (query_type, time_to_live).
Registry ==
    [wfs  |-> [query_type |-> "WFS",  time_to_live |-> 1],
     wms  |-> [query_type |-> "WMS",  time_to_live |-> 1],
     rest |-> [query_type |-> "REST", time_to_live |-> 1]]

RegisteredKeys == DOMAIN Registry
RequestKeys == RegisteredKeys \cup {"missing"}

\* Faulty variant: a lookup that never raises.
RegistryHas_Any(service_registry_key) == TRUE

\* ContextServiceRegistry.objects.get(key=...): the row is found or
\* DoesNotExist is raised.
RegistryHas(service_registry_key) == service_registry_key \in RegisteredKeys

\* The ordered key lists of the ContextGroup rows.
Groups == {<<"wfs", "rest", "wms">>, <<"wfs", "wms">>}

\* ------------------------------------------------------------ cache rows
\* cache.geometry.contains(point); the geometry of a row saved without one
\* is None, on which the attribute access raises.
HasGeometry(cache) == cache.geometry # "None"
Contains(cache, point) == point \in RegionPoints[cache.geometry]

\* Faulty variant: a row is still served at its expiry time.
IsLive_Inclusive(cache, t) == t <= cache.expired_time

\* datetime.utcnow() < cache.expired_time
IsLive(cache, t) == t < cache.expired_time

\* Faulty variant: the queryset is not restricted to the descriptor.
FilterCaches_All(rows, service_registry_key) == rows

\* ContextCache.objects.filter(service_registry=service_registry)
FilterCaches(rows, service_registry_key) ==
    {c \in rows : c.service_registry = service_registry_key}

\* The rows on which the scan of the loop can stop first: the database
\* returns the rows in no stated order, so any row that either has no
\* geometry (the attribute access raises) or contains the point can be the
\* first such row of the iteration.
StopRows(rows, point) ==
    {c \in rows : ~HasGeometry(c) \/ Contains(c, point)}

\* Faulty variant: the delete sweeps every row that expired no later than
\* the given one.
DeleteCache_Sweep(rows, cache) ==
    {c \in rows : c.expired_time > cache.expired_time}

\* cache.delete(): delete by primary key.
DeleteCache(rows, cache) == {c \in rows : c.id # cache.id}

\* ContextCache(service_registry=self, name=self.key, value=value,
\*              expired_time=utcnow() + timedelta(seconds=time_to_live))
NewCache(id, service_registry_key, geometry, value, t) ==
    [id |-> id,
     service_registry |-> service_registry_key,
     geometry |-> geometry,
     value |-> value,
     expired_time |-> t + Registry[service_registry_key].time_to_live]

\* Faulty variant: the row is built and never saved.
SaveCache_Dropped(rows, cache) == rows

\* context_cache.save()
SaveCache(rows, cache) == rows \cup {cache}

\* The response contents told apart: the result_regex tag is there
\* ("match"), the XML is well formed without the tag ("nomatch"), the XML
\* does not parse ("malformed"); for WFS also a body from which
\* parse_gml_geometry gets no geometry ("nogeometry").
Contents == {"match", "nomatch", "malformed"}

\* Faulty variant: the IndexError of a missing tag is not caught.
ParseKind_NoMatchRaises(b) ==
    IF b \in {"malformed", "nomatch"} THEN "ParseError" ELSE "ok"

\* parse_request_value: minidom.parseString raises on XML that does not
\* parse; otherwise it returns.
ParseKind(b) == IF b = "malformed" THEN "ParseError" ELSE "ok"

\* parse_request_value: the text of the first result_regex element, or
\* None when there is none (IndexError).
ParseRequestValue(b) == IF b = "match" THEN "a" ELSE "None"

\* The geometry that reaches the new row: that of the coverage region, as
\* long as the parsing went through.
GeometryFor(b, point) ==
    IF ParseKind(b) = "ok" THEN CoverageOf(point) ELSE "None"

\* What the request to the upstream service and the parsing of its answer
\* can come to, by query type.
\*   WMS:  getfeatureinfo raises | parse raises | value, geometry None
\*   WFS:  requests.get raises | parsing raises | no geometry (return None)
\*         | geometry of the coverage region and value
\*   else: build_query_url returns None and requests.get(None) raises
\*         before anything is sent
Responses(query_type, point) ==
    IF query_type = "WMS" THEN
        {[kind |-> "NetworkError", geometry |-> "None", value |-> "None",
          content |-> "-"]}
        \cup {[kind |-> ParseKind(b), geometry |-> "None",
               value |-> ParseRequestValue(b), content |-> b] :
                 b \in Contents}
    ELSE IF query_type = "WFS" THEN
        {[kind |-> "NetworkError", geometry |-> "None", value |-> "None",
          content |-> "-"],
         [kind |-> "NoGeometry", geometry |-> "None", value |-> "None",
          content |-> "nogeometry"]}
        \cup {[kind |-> ParseKind(b), geometry |-> GeometryFor(b, point),
               value |-> ParseRequestValue(b), content |-> b] :
                 b \in Contents}
    ELSE
        {[kind |-> "MissingSchema", geometry |-> "None", value |-> "None",
          content |-> "-"]}

\* Faulty variant: a request goes out whatever the query type.
SendsRequest_Always(query_type) == TRUE

\* Whether the request reached the network before the outcome was known.
SendsRequest(query_type) == query_type \in {"WFS", "WMS"}

\* ---------------------------------------------------------- build_query_url
\* A string is the sequence of its pieces; the pieces that the code looks
\* for ("?" in url, ":" in layer_typename) are pieces of their own.
Urls == {<<"http://host/ows">>,
         <<"http://host/ows", "?">>,
         <<"http://host/ows", "?", "map=a">>}

LayerTypenames == {<<"layer">>, <<"ws", ":", "layer">>}

ServiceVersions == {"1.0.0", "1.1.0"}

Srids == {"4326", "3857"}

Landmarks == {"p1", "p2", "p3"}

QueryTypes == {"WFS", "WCS", "WMS", "REST", "Wikipedia"}

\* The rows that build_query_url can be called on.
Descriptors ==
    [query_type : QueryTypes, url : Urls, layer_typename : LayerTypenames,
     service_version : ServiceVersions, srid : Srids]

\* (x, y): the coordinates of a landmark in a reference system.
Coordinates == [at : Landmarks, srid : Srids]

\* Before build_query_url was ever called.
NoRequest ==
    [query_type |-> "-", url |-> <<>>, layer_typename |-> <<>>,
     service_version |-> "-", srid |-> "-", at |-> "-", from |-> "-"]

\* build_query_url's return value for a type it has no branch for.
NoUrl == <<"None">>

Pieces(string) == {string[i] : i \in 1..Len(string)}

\* convert_coordinate: the same landmark in the target reference system.
ConvertCoordinate(xy, srid, target) == [at |-> xy.at, srid |-> target]

\* ','.join(str(i) for i in get_bbox(x, y)): the box around the coordinates.
BboxString(xy) == <<"bbox", xy.at, xy.srid>>

\* QueryDict.urlencode on one value: ':' is percent-encoded.
RECURSIVE Quote(_)
Quote(string) ==
    IF string = <<>> THEN <<>>
    ELSE <<IF Head(string) = ":" THEN "%3A" ELSE Head(string)>>
         \o Quote(Tail(string))

\* query_dict.urlencode(): the parameters joined with '&'.
UrlEncode(service_version, layer_typename) ==
    <<"SERVICE", "=", "WFS", "&", "REQUEST", "=", "GetFeature", "&",
      "VERSION", "=", service_version, "&", "TYPENAME", "=">>
    \o Quote(layer_typename)
    \o <<"&", "OUTPUTFORMAT", "=", "GML3">>

\* Faulty variant: the parameters always start with '?'.
Joiner_AlwaysQuestionMark(string) == "?"

\* What goes between self.url and the encoded parameters.
Joiner(string) == IF "?" \in Pieces(string) THEN "&" ELSE "?"

\* Faulty variant: SRSNAME is added whatever the layer's name.
SrsName_Always(layer_typename, srid) == <<"&", "SRSNAME", "=", srid>>

\* '&SRSNAME=%s' % self.srid, only when the layer's name has no workspace.
SrsName(layer_typename, srid) ==
    IF ":" \notin Pieces(layer_typename)
    THEN <<"&", "SRSNAME", "=", srid>> ELSE <<>>

\* build_query_url(self, x, y, srid)
BuildQueryUrl(self, xy, srid) ==
    IF self.query_type = "WFS" THEN
        LET point == IF srid # self.srid
                     THEN ConvertCoordinate(xy, srid, self.srid) ELSE xy
        IN self.url \o <<Joiner(self.url)>>
           \o UrlEncode(self.service_version, self.layer_typename)
           \o SrsName(self.layer_typename, self.srid)
           \o <<"&", "BBOX", "=">> \o BboxString(point)
    ELSE NoUrl

\* ----------------------------------------------------------------- state
VARIABLES
    now,          \* datetime.utcnow()
    store,        \* the ContextCache table
    nextId,       \* the next primary key of the table
    started,      \* calls of retrieve_context so far
    pc,           \* where each worker is in retrieve_context
    key,          \* service_registry_key of the call
    point,        \* the point of the call
    caches,       \* the rows the queryset gave the loop, while it runs
    result,       \* the ContextCache object returned, if one was
    outcome,      \* how the call ended
    gkeys,        \* the ordered keys of the group being populated
    gvalues,      \* service_registry_values
    looked,       \* the call has evaluated its queryset
    netCalls,     \* requests the call has sent upstream
    savedBy,      \* ids of the rows the call saved
    deletedBy,    \* ids of the rows the call deleted
    emptyAtStart, \* the descriptor had no row when the call began
    peers,        \* workers whose call was running when this one began
    content,      \* what the response of the call's request held
    urlRequest,   \* the descriptor and coordinate given to build_query_url
    url           \* what build_query_url returned for it

vars == <<now, store, nextId, started, pc, key, point, caches, result, outcome,
          gkeys, gvalues, looked, netCalls, savedBy, deletedBy,
          emptyAtStart, peers, content, urlRequest, url>>

\* The state of build_query_url's last call, which no cache step touches.
urlvars == <<urlRequest, url>>

Running(w) == pc[w] \in {"filter", "scan", "retrieve"}
Ended(w) == pc[w] \in {"returned", "raised"}

Init ==
    /\ now = 0
    /\ store = {}
    /\ nextId = 1
    /\ started = 0
    /\ pc = [w \in Workers |-> "idle"]
    /\ key = [w \in Workers |-> "missing"]
    /\ point = [w \in Workers |-> 1]
    /\ caches = [w \in Workers |-> {}]
    /\ result = [w \in Workers |-> {}]
    /\ outcome = [w \in Workers |-> "-"]
    /\ gkeys = [w \in Workers |-> <<>>]
    /\ gvalues = [w \in Workers |-> <<>>]
    /\ looked = [w \in Workers |-> FALSE]
    /\ netCalls = [w \in Workers |-> 0]
    /\ savedBy = [w \in Workers |-> {}]
    /\ deletedBy = [w \in Workers |-> {}]
    /\ emptyAtStart = [w \in Workers |-> FALSE]
    /\ peers = [w \in Workers |-> {}]
    /\ content = [w \in Workers |-> "-"]
    /\ urlRequest = NoRequest
    /\ url = <<>>

\* Faulty variant: the service is asked before the cache is looked at.
AfterGet_FetchFirst(service_registry_key) ==
    IF RegistryHas(service_registry_key) THEN "retrieve" ELSE "raised"

\* Where retrieve_context goes after ContextServiceRegistry.objects.get.
AfterGet(service_registry_key) ==
    IF RegistryHas(service_registry_key) THEN "filter" ELSE "raised"

\* retrieve_context, up to the registry lookup.
Begin(w, service_registry_key, xy) ==
    /\ started < MaxRequests
    /\ started' = started + 1
    /\ key' = [key EXCEPT ![w] = service_registry_key]
    /\ point' = [point EXCEPT ![w] = xy]
    /\ pc' = [pc EXCEPT ![w] = AfterGet(service_registry_key)]
    /\ outcome' = [outcome EXCEPT ![w] =
                      IF AfterGet(service_registry_key) = "raised"
                      THEN "DoesNotExist" ELSE "-"]
    /\ caches' = [caches EXCEPT ![w] = {}]
    /\ result' = [result EXCEPT ![w] = {}]
    /\ looked' = [looked EXCEPT ![w] = FALSE]
    /\ netCalls' = [netCalls EXCEPT ![w] = 0]
    /\ savedBy' = [savedBy EXCEPT ![w] = {}]
    /\ deletedBy' = [deletedBy EXCEPT ![w] = {}]
    /\ emptyAtStart' = [emptyAtStart EXCEPT ![w] =
                           FilterCaches(store, service_registry_key) = {}]
    /\ peers' = [v \in Workers |->
                    IF v = w THEN {u \in Workers \ {w} : Running(u)}
                    ELSE peers[v] \ {w}]
    /\ content' = [content EXCEPT ![w] = "-"]
    /\ UNCHANGED <<now, store, nextId, urlvars>>

\* A single request: get_context -> retrieve_context(x, y, key, srid).
Request(w, service_registry_key, xy) ==
    /\ pc[w] = "idle"
    /\ Begin(w, service_registry_key, xy)
    /\ UNCHANGED <<gkeys, gvalues>>

\* for cache in caches: the queryset is evaluated.
Filter(w) ==
    /\ pc[w] = "filter"
    /\ caches' = [caches EXCEPT ![w] = FilterCaches(store, key[w])]
    /\ looked' = [looked EXCEPT ![w] = TRUE]
    /\ pc' = [pc EXCEPT ![w] = "scan"]
    /\ UNCHANGED <<content, urlvars, now, store, nextId, started, key, point, result, outcome, gkeys,
                   gvalues, netCalls, savedBy, deletedBy, emptyAtStart, peers>>

\* The loop found no row to stop on: fall through to the service.
ScanMiss(w) ==
    /\ pc[w] = "scan"
    /\ caches' = [caches EXCEPT ![w] = {}]
    /\ StopRows(caches[w], point[w]) = {}
    /\ pc' = [pc EXCEPT ![w] = "retrieve"]
    /\ UNCHANGED <<content, urlvars, now, store, nextId, started, key, point, result, outcome,
                   gkeys, gvalues, looked, netCalls, savedBy, deletedBy,
                   emptyAtStart, peers>>

\* The loop reached a row without geometry: None has no contains().
ScanRaise(w) ==
    /\ pc[w] = "scan"
    /\ caches' = [caches EXCEPT ![w] = {}]
    /\ \E c \in StopRows(caches[w], point[w]) :
          /\ ~HasGeometry(c)
          /\ pc' = [pc EXCEPT ![w] = "raised"]
          /\ outcome' = [outcome EXCEPT ![w] = "AttributeError"]
    /\ UNCHANGED <<content, urlvars, now, store, nextId, started, key, point, result, gkeys,
                   gvalues, looked, netCalls, savedBy, deletedBy,
                   emptyAtStart, peers>>

\* Faulty variant: a hit pushes the expiry of the row it returns further by
\* the descriptor's time_to_live.
ScanHit_Renew(w) ==
    /\ pc[w] = "scan"
    /\ caches' = [caches EXCEPT ![w] = {}]
    /\ \E c \in StopRows(caches[w], point[w]) :
          LET renewed == [c EXCEPT !.expired_time =
                             @ + Registry[key[w]].time_to_live]
          IN /\ HasGeometry(c)
             /\ IsLive(c, now)
             /\ store' = (store \ {c}) \cup {renewed}
             /\ result' = [result EXCEPT ![w] = {renewed}]
             /\ outcome' = [outcome EXCEPT ![w] = "hit"]
             /\ pc' = [pc EXCEPT ![w] = "returned"]
    /\ UNCHANGED <<content, urlvars, now, nextId, started, key, point,
                   gkeys, gvalues, looked, netCalls, savedBy, deletedBy,
                   emptyAtStart, peers>>

\* The loop reached a row that contains the point and is not expired.
ScanHit(w) ==
    /\ pc[w] = "scan"
    /\ caches' = [caches EXCEPT ![w] = {}]
    /\ \E c \in StopRows(caches[w], point[w]) :
          /\ HasGeometry(c)
          /\ IsLive(c, now)
          /\ result' = [result EXCEPT ![w] = {c}]
          /\ outcome' = [outcome EXCEPT ![w] = "hit"]
          /\ pc' = [pc EXCEPT ![w] = "returned"]
    /\ UNCHANGED <<content, urlvars, now, store, nextId, started, key, point, gkeys, gvalues,
                   looked, netCalls, savedBy, deletedBy, emptyAtStart, peers>>

\* The loop reached a row that contains the point and is expired:
\* cache.delete(); break.
ScanExpired(w) ==
    /\ pc[w] = "scan"
    /\ caches' = [caches EXCEPT ![w] = {}]
    /\ \E c \in StopRows(caches[w], point[w]) :
          /\ HasGeometry(c)
          /\ ~IsLive(c, now)
          /\ store' = DeleteCache(store, c)
          /\ deletedBy' = [deletedBy EXCEPT ![w] = @ \cup {c.id}]
          /\ pc' = [pc EXCEPT ![w] = "retrieve"]
    /\ UNCHANGED <<content, urlvars, now, nextId, started, key, point, result, outcome, gkeys,
                   gvalues, looked, netCalls, savedBy, emptyAtStart, peers>>

\* Faulty variant: the row is saved before the value is parsed.
StoreAfter_SaveBeforeParse(rows, kind, context_cache) ==
    IF kind \in {"ok", "ParseError"}
    THEN SaveCache(rows, context_cache) ELSE rows

\* The table after retrieve_context_value: the row is saved only once the
\* request and all parsing have succeeded; every raise and the early
\* return None come before the row is built.
StoreAfter(rows, kind, context_cache) ==
    IF kind = "ok" THEN SaveCache(rows, context_cache) ELSE rows

\* Faulty variant: a response without geometry is taken for a failure.
LeaveAs_NoGeometryRaises(kind) ==
    IF kind = "ok" THEN "returned" ELSE "raised"

\* How retrieve_context_value leaves: return context_cache, return None,
\* or the exception.
LeaveAs(kind) ==
    IF kind \in {"ok", "NoGeometry"} THEN "returned" ELSE "raised"

\* service_registry.retrieve_context_value(x, y, srid): the request, the
\* parsing and, when both succeed with what this query type needs, the new
\* row, its save and refresh_from_db, which reads back the row just saved.
\* The request touches nothing shared, so the step is placed at the save.
Retrieve(w) ==
    /\ pc[w] = "retrieve"
    /\ LET query_type == Registry[key[w]].query_type IN
       \E r \in Responses(query_type, point[w]) :
          LET context_cache ==
                 NewCache(nextId, key[w], r.geometry, r.value, now)
          IN /\ netCalls' = [netCalls EXCEPT ![w] =
                                IF SendsRequest(query_type) THEN @ + 1 ELSE @]
             /\ store' = StoreAfter(store, r.kind, context_cache)
             /\ nextId' = IF r.kind = "ok" THEN nextId + 1 ELSE nextId
             /\ savedBy' = [savedBy EXCEPT ![w] =
                               @ \cup {c.id : c \in store' \ store}]
             /\ result' = [result EXCEPT ![w] =
                              IF r.kind = "ok" THEN {context_cache} ELSE {}]
             /\ outcome' = [outcome EXCEPT ![w] =
                               IF r.kind = "ok" THEN "saved"
                               ELSE IF r.kind = "NoGeometry" THEN "None"
                               ELSE r.kind]
             /\ pc' = [pc EXCEPT ![w] = LeaveAs(r.kind)]
             /\ content' = [content EXCEPT ![w] = r.content]
    /\ UNCHANGED <<urlvars, now, started, key, point, caches, gkeys, gvalues, looked,
                   deletedBy, emptyAtStart, peers>>

\* The worker is done with its request: its locals are gone.
Release(w) ==
    /\ pc' = [pc EXCEPT ![w] = "idle"]
    /\ key' = [key EXCEPT ![w] = "missing"]
    /\ point' = [point EXCEPT ![w] = 1]
    /\ caches' = [caches EXCEPT ![w] = {}]
    /\ result' = [result EXCEPT ![w] = {}]
    /\ outcome' = [outcome EXCEPT ![w] = "-"]
    /\ gkeys' = [gkeys EXCEPT ![w] = <<>>]
    /\ gvalues' = [gvalues EXCEPT ![w] = <<>>]
    /\ looked' = [looked EXCEPT ![w] = FALSE]
    /\ netCalls' = [netCalls EXCEPT ![w] = 0]
    /\ savedBy' = [savedBy EXCEPT ![w] = {}]
    /\ deletedBy' = [deletedBy EXCEPT ![w] = {}]
    /\ emptyAtStart' = [emptyAtStart EXCEPT ![w] = FALSE]
    /\ peers' = [v \in Workers |-> IF v = w THEN {} ELSE peers[v] \ {w}]
    /\ content' = [content EXCEPT ![w] = "-"]
    /\ UNCHANGED <<now, store, nextId, started, urlvars>>

\* The single request is answered; the worker takes the next one.
Finish(w) ==
    /\ Ended(w)
    /\ gkeys[w] = <<>>
    /\ Release(w)

\* ContextGroupValue.__init__: populate_service_registry_values starts on
\* the first key of the group.
GroupRequest(w, group, xy) ==
    /\ pc[w] = "idle"
    /\ gkeys' = [gkeys EXCEPT ![w] = group]
    /\ gvalues' = [gvalues EXCEPT ![w] = <<>>]
    /\ Begin(w, group[1], xy)

\* retrieve_context returned: append, then the next key or the end.
GroupAppend(w) ==
    /\ gkeys[w] # <<>>
    /\ pc[w] = "returned"
    /\ LET values == Append(gvalues[w],
                            [key |-> key[w], outcome |-> outcome[w],
                             cache |-> result[w]])
       IN /\ gvalues' = [gvalues EXCEPT ![w] = values]
          /\ IF Len(values) < Len(gkeys[w])
             THEN Begin(w, gkeys[w][Len(values) + 1], point[w])
             ELSE /\ pc' = [pc EXCEPT ![w] = "group_done"]
                  /\ UNCHANGED <<content, urlvars, now, store, nextId, started, key, point, caches,
                                 result, outcome, looked, netCalls, savedBy,
                                 deletedBy, emptyAtStart, peers>>
    /\ UNCHANGED gkeys

\* retrieve_context raised: nothing catches it, the loop is left and the
\* exception leaves populate_service_registry_values and __init__.
GroupRaise(w) ==
    /\ gkeys[w] # <<>>
    /\ pc[w] = "raised"
    /\ pc' = [pc EXCEPT ![w] = "group_raised"]
    /\ UNCHANGED <<content, urlvars, now, store, nextId, started, key, point, caches, result, outcome,
                   gkeys, gvalues, looked, netCalls, savedBy, deletedBy,
                   emptyAtStart, peers>>

\* The group request is answered; the worker takes the next one.
GroupFinish(w) ==
    /\ pc[w] \in {"group_done", "group_raised"}
    /\ Release(w)

\* Time passes.
Tick ==
    /\ now < MaxTime
    /\ now' = now + 1
    /\ UNCHANGED <<content, urlvars, store, nextId, started, pc, key, point, caches, result, outcome,
                   gkeys, gvalues, looked, netCalls, savedBy, deletedBy,
                   emptyAtStart, peers>>

\* Single requests, served by the workers side by side.
Next ==
    \/ \E w \in Workers, k \in RequestKeys, xy \in Points : Request(w, k, xy)
    \/ \E w \in Workers : Filter(w)
    \/ \E w \in Workers : ScanMiss(w)
    \/ \E w \in Workers : ScanRaise(w)
    \/ \E w \in Workers : ScanHit(w)
    \/ \E w \in Workers : ScanExpired(w)
    \/ \E w \in Workers : Retrieve(w)
    \/ \E w \in Workers : Finish(w)
    \/ Tick

Spec == Init /\ [][Next]_vars

\* Single and group requests.
GroupNext ==
    \/ Next
    \/ \E w \in Workers, g \in Groups, xy \in Points : GroupRequest(w, g, xy)
    \/ \E w \in Workers : GroupAppend(w)
    \/ \E w \in Workers : GroupRaise(w)
    \/ \E w \in Workers : GroupFinish(w)

GroupSpec == Init /\ [][GroupNext]_vars

\* One call of build_query_url, of any descriptor at any coordinates given
\* in the reference system they are in; the cache is not involved.
UrlBuild ==
    /\ \E self \in Descriptors, xy \in Coordinates :
          /\ urlRequest' = [query_type |-> self.query_type,
                            url |-> self.url,
                            layer_typename |-> self.layer_typename,
                            service_version |-> self.service_version,
                            srid |-> self.srid,
                            at |-> xy.at, from |-> xy.srid]
          /\ url' = BuildQueryUrl(self, xy, xy.srid)
    /\ UNCHANGED <<now, store, nextId, started, pc, key, point, caches,
                   result, outcome, gkeys, gvalues, looked, netCalls,
                   savedBy, deletedBy, emptyAtStart, peers, content>>

UrlSpec == Init /\ [][UrlBuild]_vars

\* A request that begins while no other call is running: the calls come one
\* after the other.
SeqRequest(w, service_registry_key, xy) ==
    /\ \A v \in Workers \ {w} : ~Running(v)
    /\ Request(w, service_registry_key, xy)

SeqNext ==
    \/ \E w \in Workers, k \in RequestKeys, xy \in Points :
          SeqRequest(w, k, xy)
    \/ \E w \in Workers : Filter(w)
    \/ \E w \in Workers : ScanMiss(w)
    \/ \E w \in Workers : ScanRaise(w)
    \/ \E w \in Workers : ScanHit(w)
    \/ \E w \in Workers : ScanExpired(w)
    \/ \E w \in Workers : Retrieve(w)
    \/ \E w \in Workers : Finish(w)
    \/ Tick

SeqSpec == Init /\ [][SeqNext]_vars

\* ----------------------------------------------------------------- claims
\* Two calls ran side by side when one began while the other was running.
SideBySide(w, v) == v \in peers[w] \/ w \in peers[v]

\* The rows of a descriptor that contain a point and are not expired at t.
LiveCover(rows, service_registry_key, xy, t) ==
    {c \in rows : /\ c.service_registry = service_registry_key
                  /\ c.geometry # "None"
                  /\ xy \in RegionPoints[c.geometry]
                  /\ t < c.expired_time}

\* C1: calls of retrieve_context that run side by side for the same key
\*\* and point of the WFS descriptor, each begun with no row stored for
\* the descriptor, send one request upstream between them, save at most
\* one row and end alike.
C1_OneFetchForParallelCalls ==
    \A w \in Workers : \A v \in Workers \ {w} :
        ( /\ Ended(w) /\ Ended(v)
          /\ SideBySide(w, v)
          /\ key[w] = key[v] /\ point[w] = point[v]
          /\ key[w] = "wfs"
          /\ emptyAtStart[w] /\ emptyAtStart[v] )
        => /\ netCalls[w] + netCalls[v] = 1
           /\ Cardinality(savedBy[w] \cup savedBy[v]) <= 1
           /\ result[w] = result[v]
           /\ (pc[w] = "raised") = (pc[v] = "raised")

\* C2: for every descriptor and every point, at most one stored row that
\* is not expired has a geometry containing the point.
C2_AtMostOneLiveCover ==
    \A k \in RegisteredKeys : \A xy \in Points :
        Cardinality(LiveCover(store, k, xy, now)) <= 1

\* C3: when the loop of a call runs over rows of which one contains the
\* point and is not expired, the call returns such a row and sends nothing
\* upstream.
C3_LiveCoverIsReturned ==
    [][\A w \in Workers :
          ( /\ pc[w] = "scan" /\ pc'[w] # "scan"
            /\ LiveCover(caches[w], key[w], point[w], now) # {} )
          => /\ pc'[w] = "returned"
             /\ result'[w] # {}
             /\ result'[w] \subseteq
                    LiveCover(caches[w], key[w], point[w], now)
             /\ netCalls'[w] = 0]_vars

\* The rows among those of a loop that contain the call's point.
Cover(rows, xy) ==
    {c \in rows : c.geometry # "None" /\ xy \in RegionPoints[c.geometry]}

\* C4: when the loop of a call runs over rows with geometry of which those
\* containing the point are all expired (expired_time <= now), the loop
\* deletes one of them and the call goes on to the service without a
\* result; and a row returned by the loop is never expired.
C4_ExpiredCoverIsDeletedNotReturned ==
    [][\A w \in Workers :
          (pc[w] = "scan" /\ pc'[w] # "scan")
          => /\ \A c \in result'[w] : now < c.expired_time
             /\ ( /\ Cover(caches[w], point[w]) # {}
                  /\ \A c \in caches[w] : c.geometry # "None"
                  /\ \A c \in Cover(caches[w], point[w]) :
                        c.expired_time <= now )
                => /\ pc'[w] = "retrieve"
                   /\ result'[w] = {}
                   /\ \E c \in Cover(caches[w], point[w]) :
                         /\ store' = store \ {c}
                         /\ deletedBy'[w] = {c.id}]_vars

C4_Witness ==
    \E w \in Workers :
        /\ pc[w] = "retrieve"
        /\ deletedBy[w] # {}
        /\ \A c \in store : c.id \notin deletedBy[w]

\* C5: a call whose loop found no row containing its point (it reached the
\* service having deleted nothing) and whose retrieve_context_value returns
\* a row has sent one request upstream, and that step adds one row to the
\* table, the row returned, under the call's descriptor.
C5_MissFetchesOnceAndSavesOneRow ==
    [][\A w \in Workers :
          ( /\ pc[w] = "retrieve" /\ deletedBy[w] = {}
            /\ pc'[w] = "returned" /\ outcome'[w] = "saved" )
          => /\ netCalls'[w] = 1
             /\ store \subseteq store'
             /\ Cardinality(store' \ store) = 1
             /\ result'[w] = store' \ store
             /\ \A c \in store' \ store : c.service_registry = key[w]]_vars

C5_Witness ==
    \E w \in Workers :
        /\ pc[w] = "returned" /\ outcome[w] = "saved"
        /\ deletedBy[w] = {}
        /\ netCalls[w] = 1
        /\ result[w] \subseteq store
        /\ Cardinality(savedBy[w]) = 1

\* C6: a call for the WMS descriptor never returns a stored row as a hit
\* and ends having sent its request upstream, also when rows without
\* geometry are stored.
C6_GeometrylessRowsAreRefetched ==
    \A w \in Workers :
        (Ended(w) /\ key[w] = "wms")
        => /\ outcome[w] # "hit"
           /\ netCalls[w] = 1

\* C7: a group request that has ended holds one value per key of the
\* group, whether or not a key's retrieve_context raised.
C7_GroupHoldsOneValuePerKey ==
    \A w \in Workers :
        pc[w] \in {"group_done", "group_raised"}
        => Len(gvalues[w]) = Len(gkeys[w])

\* C8: when retrieve_context_value ends with the request or the parsing
\* raising, the call raises that error, the table is as the step found it
\* and the call has saved no row.
C8_FailureStoresNothing ==
    [][\A w \in Workers :
          ( /\ pc[w] = "retrieve" /\ pc'[w] # "retrieve"
            /\ outcome'[w] \in {"NetworkError", "ParseError"} )
          => /\ pc'[w] = "raised"
             /\ store' = store
             /\ result'[w] = {}
             /\ savedBy'[w] = {}]_vars

C8_Witness ==
    \E w \in Workers :
        /\ pc[w] = "raised"
        /\ outcome[w] \in {"NetworkError", "ParseError"}
        /\ netCalls[w] = 1
        /\ store # {}

\* C9: a call that is about to send or has sent its request upstream has
\* evaluated its queryset and left its loop, and never goes back to them.
C9_LookupBeforeNetwork ==
    \A w \in Workers :
        /\ (pc[w] = "retrieve" \/ netCalls[w] > 0)
           => (looked[w] /\ caches[w] = {})
        /\ netCalls[w] > 0 => pc[w] \notin {"filter", "scan", "retrieve"}

C9_Witness ==
    \E w \in Workers : netCalls[w] = 1 /\ looked[w] /\ outcome[w] = "saved"

\* C10: a call with a key that no registry row has raises DoesNotExist
\* having evaluated no queryset, deleted and saved no row and sent nothing
\* upstream.
C10_UnknownKeyRaisesUntouched ==
    \A w \in Workers :
        (pc[w] # "idle" /\ key[w] \notin RegisteredKeys)
        => /\ pc[w] = "raised"
           /\ outcome[w] = "DoesNotExist"
           /\ ~looked[w]
           /\ netCalls[w] = 0
           /\ deletedBy[w] = {}
           /\ savedBy[w] = {}

C10_Witness ==
    \E w \in Workers :
        /\ pc[w] = "raised" /\ key[w] = "missing"
        /\ outcome[w] = "DoesNotExist"
        /\ store # {}

\* C11: a response that is well formed but holds no element of the
\* result_regex tag is no error: the call returns, and what it returns is
\* the one row it saved, with the value None, the descriptor of the call
\* and, for WFS, the geometry of the response.
C11_NoMatchIsSavedWithNoValue ==
    [][\A w \in Workers :
          (pc[w] = "retrieve" /\ content'[w] = "nomatch")
          => /\ pc'[w] = "returned"
             /\ \E c \in store' \ store :
                   /\ store' = store \cup {c}
                   /\ result'[w] = {c}
                   /\ c.value = "None"
                   /\ c.service_registry = key[w]
                   /\ key[w] = "wfs" => point[w] \in RegionPoints[c.geometry]]_vars

C11_Witness ==
    \E w \in Workers :
        /\ pc[w] = "returned"
        /\ content[w] = "nomatch"
        /\ key[w] = "wfs"
        /\ \E c \in store : result[w] = {c} /\ c.value = "None"

\* The part of the built URL that follows the descriptor's own url.
Appended == SubSeq(url, Len(urlRequest.url) + 1, Len(url))

\* C12: the URL built for a WFS descriptor has the SRSNAME parameter, with
\* the descriptor's srid as its value, exactly when the layer's name holds
\* no ':'; the BBOX parameter is there in both cases.
C12_SrsNameIffNoWorkspace ==
    urlRequest.query_type = "WFS"
    => /\ (\E i \in 1..Len(Appended) : Appended[i] = "SRSNAME")
          <=> (\A j \in 1..Len(urlRequest.layer_typename) :
                  urlRequest.layer_typename[j] # ":")
       /\ \A i \in 1..Len(Appended) :
             Appended[i] = "SRSNAME"
             => /\ i + 2 <= Len(Appended)
                /\ Appended[i - 1] = "&"
                /\ Appended[i + 1] = "="
                /\ Appended[i + 2] = urlRequest.srid
       /\ \E i \in 2..Len(Appended) :
             Appended[i] = "BBOX" /\ Appended[i - 1] = "&"

C12_Witness ==
    /\ urlRequest.query_type = "WFS"
    /\ \E j \in 1..Len(urlRequest.layer_typename) :
          urlRequest.layer_typename[j] = ":"
    /\ \E i \in 1..Len(url) : url[i] = "BBOX"
    /\ \A i \in 1..Len(url) : url[i] # "SRSNAME"

\* The names of the parameters build_query_url puts into the URL.
ParameterNames ==
    {"SERVICE", "REQUEST", "VERSION", "TYPENAME", "OUTPUTFORMAT", "SRSNAME",
     "BBOX"}

\* C13: in the URL built for a WFS descriptor the first parameter follows
\* the descriptor's url after a '?' when that url holds no '?', and after an
\* '&' when it holds one; every later parameter follows an '&'.
C13_FirstJoinerByQuestionMark ==
    urlRequest.query_type = "WFS"
    => /\ SubSeq(url, 1, Len(urlRequest.url)) = urlRequest.url
       /\ Len(Appended) >= 2
       /\ Appended[2] \in ParameterNames
       /\ Appended[1] =
             IF \E j \in 1..Len(urlRequest.url) : urlRequest.url[j] = "?"
             THEN "&" ELSE "?"
       /\ \A i \in 3..Len(Appended) :
             /\ Appended[i] \in ParameterNames => Appended[i - 1] = "&"
             /\ Appended[i] # "?"

C13_Witness ==
    /\ urlRequest.query_type = "WFS"
    /\ \E j \in 1..Len(urlRequest.url) : urlRequest.url[j] = "?"
    /\ url[Len(urlRequest.url) + 1] = "&"
    /\ url[Len(urlRequest.url) + 2] = "SERVICE"

\* C14 as stated: a WFS response without parseable geometry stores no row
\* and a result with the response's value is still returned to the caller.
C14_NoGeometryStillReturnsValue ==
    [][\A w \in Workers :
          (pc[w] = "retrieve" /\ content'[w] = "nogeometry")
          => /\ store' = store
             /\ result'[w] # {}]_vars

\* C14: a WFS response without parseable geometry stores no row, and the
\* call returns None to its caller, without raising, after its one request.
C14_NoGeometryReturnsNoneUnsaved ==
    [][\A w \in Workers :
          (pc[w] = "retrieve" /\ content'[w] = "nogeometry")
          => /\ store' = store
             /\ nextId' = nextId
             /\ savedBy'[w] = {}
             /\ result'[w] = {}
             /\ outcome'[w] = "None"
             /\ pc'[w] = "returned"
             /\ netCalls'[w] = netCalls[w] + 1]_vars

C14_Witness ==
    \E w \in Workers :
        /\ pc[w] = "returned"
        /\ content[w] = "nogeometry"
        /\ key[w] = "wfs"
        /\ result[w] = {}
        /\ netCalls[w] = 1

\* C15: a step removes at most one row, and only the scan of a call removes
\* one: a row of the call's descriptor whose geometry contains the call's
\* point and whose expiry time has come; every other row stays as it is,
\* and no call deletes twice.
C15_OnlyTheExpiredCoverIsDeleted ==
    [][/\ Cardinality(store \ store') <= 1
       /\ \A c \in store \ store' :
             \E w \in Workers :
                /\ pc[w] = "scan" /\ pc'[w] = "retrieve"
                /\ c.service_registry = key[w]
                /\ c.geometry # "None"
                /\ point[w] \in RegionPoints[c.geometry]
                /\ c.expired_time <= now
       /\ \A w \in Workers : Cardinality(deletedBy'[w]) <= 1]_vars

C15_Witness ==
    \E w \in Workers :
        /\ pc[w] = "retrieve"
        /\ deletedBy[w] # {}
        /\ \A c \in store : c.id \notin deletedBy[w]
        /\ \E c \in store :
              /\ c.service_registry = key[w]
              /\ c.geometry # "None"
              /\ point[w] \notin RegionPoints[c.geometry]
              /\ c.expired_time <= now

\* C16: a saved row expires at the time of its save plus the descriptor's
\* time_to_live, and so a lookup of a point in the row's geometry is a hit
\* as long as that time has not come, and returns no row whose time has
\* come.
C16_RowServedUntilExpiry ==
    [][\A w \in Workers :
          /\ pc[w] = "retrieve"
             => \A c \in store' \ store :
                   c.expired_time = now + Registry[key[w]].time_to_live
          /\ (pc[w] = "scan" /\ pc'[w] # "scan")
             => /\ \A c \in caches[w] \cap store :
                      ( /\ c.geometry # "None"
                        /\ point[w] \in RegionPoints[c.geometry]
                        /\ now < c.expired_time )
                      => (pc'[w] = "returned" /\ result'[w] # {})
                /\ \A c \in result'[w] : now < c.expired_time]_vars

C18_RepeatedCallHitsSavedRow ==
    [][\A w \in Workers, v \in Workers :
          ( /\ v # w
            /\ pc[v] = "returned" /\ outcome[v] = "saved" /\ netCalls[v] = 1
            /\ key[v] = key[w] /\ point[v] = point[w]
            /\ \E c \in result[v] : c \in store /\ now < c.expired_time
            /\ pc[w] = "scan" /\ pc'[w] # "scan" )
          => /\ pc'[w] = "returned"
             /\ result'[w] = result[v]
             /\ netCalls'[w] = 0
             /\ store' = store
             /\ nextId' = nextId]_vars

\* C19: the step on which a call ends in a hit leaves the table as it is,
\* the row it returns is a row of the table as it was saved, and the call
\* has saved and deleted nothing and sent nothing upstream.
C19_HitLeavesStoreUnchanged ==
    [][\A w \in Workers :
          (pc[w] = "scan" /\ outcome'[w] = "hit")
          => /\ store' = store
             /\ nextId' = nextId
             /\ result'[w] # {}
             /\ result'[w] \subseteq store
             /\ savedBy'[w] = {}
             /\ deletedBy'[w] = {}
             /\ netCalls'[w] = 0]_vars

C19_Witness ==
    \E w \in Workers :
        /\ pc[w] = "returned"
        /\ outcome[w] = "hit"
        /\ result[w] # {}
        /\ result[w] \subseteq store
        /\ Cardinality(store) > 1

\* C20: the rows a call iterates and the row it returns are rows of its own
\* descriptor, and the rows that a step of a call removes from or adds to
\* the table are rows of that call's descriptor: the rows of every other
\* descriptor are as they were.
C20_CallsTouchOnlyTheirDescriptor ==
    [][\A w \in Workers :
          /\ \A c \in caches'[w] \cup result'[w] :
                c.service_registry = key'[w]
          /\ (pc[w] # "idle" /\ pc'[w] # pc[w])
             => \A c \in (store \ store') \cup (store' \ store) :
                   c.service_registry = key[w]]_vars

C20_Witness ==
    \E w \in Workers :
        /\ key[w] = "wfs"
        /\ outcome[w] = "hit"
        /\ \E c \in store : c.service_registry = "wms"
        /\ \A c \in result[w] : c.service_registry = "wfs"

====
